---------------------------- MODULE Spec2Model ----------------------------
(***************************************************************************)
(* Masked-loss layer of DeepSatModels (metrics/loss_functions.py): the     *)
(* loss factory get_loss, the loss functors and CombinedLoss.              *)
(*                                                                         *)
(* Python values are tagged records ([t |-> "None"], [t |-> "str", ...]).  *)
(* A tensor is a record of its dtype, its shape and its elements in        *)
(* row-major order.  Floating-point numbers are fixed-point integers in    *)
(* units of 1/Scale; class indices (int64) and booleans (0/1) are plain    *)
(* integers.  A raised exception is the record [t |-> "error", exc |-> e]. *)
(***************************************************************************)
EXTENDS Integers, Sequences, FiniteSets, TLC

(***************************************************************************)
(* Bounds of the model.                                                    *)
(***************************************************************************)
\* number of elements (pixels) of a batch
MaxElems == 2
\* longest list of loss identifiers / of sub-losses of a CombinedLoss
MaxList == 2
\* number of elements of a batch given to a CombinedLoss
MaxCombinedElems == 1
\* number of forward invocations made on one loss object
MaxInvocations == 3
\* number of invocations of one loss object running at the same time
MaxConcurrent == 2

\* one unit of a float32 value is 1/Scale
Scale == 1000
\* trailing (class) axis of the logits of a classification loss
NumClasses == 2

(***************************************************************************)
(* Python values.                                                          *)
(***************************************************************************)
PyNone == [t |-> "None"]
PyStr(s) == [t |-> "str", v |-> s]
PyFloat(x) == [t |-> "float", v |-> x]
PyInt(n) == [t |-> "int", v |-> n]
PyList(xs) == [t |-> "list", v |-> xs]
PyDict(d) == [t |-> "dict", v |-> d]
Raise(e) == [t |-> "error", exc |-> e]
IsErr(x) == x.t = "error"

NaN == 0 - 999999999

(***************************************************************************)
(* Fixed-point arithmetic on float32 values.                               *)
(***************************************************************************)
FMul(a, b) == IF a = NaN \/ b = NaN THEN NaN ELSE (a * b) \div Scale
FDiv(a, b) == IF a = NaN \/ b = NaN \/ b = 0 THEN NaN ELSE (a * Scale) \div b
FAdd(a, b) == IF a = NaN \/ b = NaN THEN NaN ELSE a + b
FSub(a, b) == IF a = NaN \/ b = NaN THEN NaN ELSE a - b
FNeg(a) == IF a = NaN THEN NaN ELSE 0 - a

RECURSIVE FPow(_, _)
FPow(a, n) == IF n = 0 THEN Scale ELSE FMul(a, FPow(a, n - 1))

\* log(1 + exp(d)) for a difference d of two logits, d in whole units
Softplus(d) ==
    CASE d = 0 - 2 -> 127
      [] d = 0 - 1 -> 313
      [] d = 0 -> 693
      [] d = 1 -> 1313
      [] d = 2 -> 2127

\* exp(x) at the values a log-softmax takes
FExp(x) ==
    CASE x = 0 -> 1000
      [] x = 0 - 127 -> 881
      [] x = 0 - 313 -> 731
      [] x = 0 - 693 -> 500
      [] x = 0 - 1313 -> 269
      [] x = 0 - 2127 -> 119

RECURSIVE SumSeq(_)
SumSeq(s) == IF s = <<>> THEN 0 ELSE FAdd(Head(s), SumSeq(Tail(s)))

RECURSIVE Prod(_)
Prod(s) == IF s = <<>> THEN 1 ELSE Head(s) * Prod(Tail(s))

(***************************************************************************)
(* Tensors.                                                                *)
(***************************************************************************)
Tensor(dtype, shape, data) ==
    [t |-> "tensor", dtype |-> dtype, shape |-> shape, data |-> data]
Scalar(x) == Tensor("float", <<>>, <<x>>)
IsTensor(x) == x.t = "tensor"
Numel(x) == Len(x.data)
Dim(x) == Len(x.shape)
Last(s) == s[Len(s)]

\* x.reshape(-1, k1, ..., kn): rest is <<k1, ..., kn>>
ReshapeInfer(x, rest) ==
    IF Prod(rest) = 0 \/ Numel(x) % Prod(rest) # 0
    THEN Raise("RuntimeError")
    ELSE Tensor(x.dtype, <<Numel(x) \div Prod(rest)>> \o rest, x.data)

\* x.to(torch.int64), x.to(torch.float32)
ToInt64(x) ==
    Tensor("int64", x.shape,
           [i \in 1..Numel(x) |->
              IF x.dtype = "float" THEN x.data[i] \div Scale ELSE x.data[i]])
ToFloat32(x) ==
    Tensor("float", x.shape,
           [i \in 1..Numel(x) |->
              IF x.dtype = "float" THEN x.data[i] ELSE x.data[i] * Scale])

\* x.unsqueeze(-1)
Unsqueeze(x) == Tensor(x.dtype, x.shape \o <<1>>, x.data)

\* m.repeat(1, k) of a tensor m of shape (n, 1)
Repeat1(m, k) ==
    Tensor(m.dtype, <<m.shape[1], k>>,
           [i \in 1..(m.shape[1] * k) |-> m.data[((i - 1) \div k) + 1]])

RECURSIVE Pick(_, _, _, _)
\* the elements data[i..], each kept when its block's mask entry is true
Pick(data, mask, blk, i) ==
    IF i > Len(data) THEN <<>>
    ELSE IF mask[((i - 1) \div blk) + 1] = 1
         THEN <<data[i]>> \o Pick(data, mask, blk, i + 1)
         ELSE Pick(data, mask, blk, i + 1)

\* x[m] with a boolean tensor m: m's shape must be a prefix of x's
BoolIndex(x, m) ==
    IF Dim(m) > Dim(x) THEN Raise("IndexError")
    ELSE IF \E d \in 1..Dim(m) : m.shape[d] # x.shape[d] THEN Raise("IndexError")
    ELSE LET rest == SubSeq(x.shape, Dim(m) + 1, Dim(x))
             blk == Prod(rest)
             k == SumSeq(m.data)
         IN  Tensor(x.dtype, <<k>> \o rest, Pick(x.data, m.data, blk, 1))

\* torch.gather(x, -1, index) / x.gather(-1, index)
Gather(x, index) ==
    IF Dim(index) # Dim(x) THEN Raise("RuntimeError")
    ELSE IF \E d \in 1..(Dim(x) - 1) : index.shape[d] > x.shape[d]
         THEN Raise("RuntimeError")
    ELSE IF \E i \in 1..Numel(index) :
                index.data[i] < 0 \/ index.data[i] >= Last(x.shape)
         THEN Raise("RuntimeError")
    ELSE LET cx == Last(x.shape)
             ci == Last(index.shape)
         IN  Tensor(x.dtype, index.shape,
                    [i \in 1..Numel(index) |->
                       x.data[((i - 1) \div ci) * cx + index.data[i] + 1]])

\* F.log_softmax(x, dim=-1) of a 2-D tensor with NumClasses columns
LogSoftmax(x) ==
    LET c == Last(x.shape)
    IN  Tensor("float", x.shape,
               [i \in 1..Numel(x) |->
                  LET row == (i - 1) \div c
                      other == row * c + (c - ((i - 1) % c))
                  IN  IF c = 1 THEN 0
                      ELSE 0 - Softplus((x.data[other] - x.data[i]) \div Scale)])

\* x.exp()
ExpT(x) == Tensor("float", x.shape, [i \in 1..Numel(x) |-> FExp(x.data[i])])

\* x[:, j] of a 2-D tensor (j counted from 0)
Column(x, j) ==
    IF j >= x.shape[2] THEN Raise("IndexError")
    ELSE Tensor(x.dtype, <<x.shape[1]>>,
                [i \in 1..x.shape[1] |-> x.data[(i - 1) * x.shape[2] + j + 1]])

FOp(op, a, b) ==
    CASE op = "mul" -> FMul(a, b)
      [] op = "add" -> FAdd(a, b)
      [] op = "sub" -> FSub(a, b)
      [] op = "div" -> FDiv(a, b)

\* elementwise x op y, promoted to float; a 0-dim operand is broadcast
BinT(op, x, y) ==
    LET a == ToFloat32(x)
        b == ToFloat32(y)
    IN  IF a.shape = b.shape
        THEN Tensor("float", a.shape,
                    [i \in 1..Numel(a) |-> FOp(op, a.data[i], b.data[i])])
        ELSE IF a.shape = <<>>
        THEN Tensor("float", b.shape,
                    [i \in 1..Numel(b) |-> FOp(op, a.data[1], b.data[i])])
        ELSE IF b.shape = <<>>
        THEN Tensor("float", a.shape,
                    [i \in 1..Numel(a) |-> FOp(op, a.data[i], b.data[1])])
        ELSE Raise("Unmodelled")

\* x ** n for a whole exponent n
PowT(x, n) == Tensor("float", x.shape, [i \in 1..Numel(x) |-> FPow(x.data[i], n)])

\* x.sum(), x.mean()
SumT(x) == Scalar(SumSeq(x.data))
MeanT(x) ==
    Scalar(IF Numel(x) = 0 THEN NaN ELSE FDiv(SumSeq(x.data), Numel(x) * Scale))

(***************************************************************************)
(* Reductions.                                                             *)
(***************************************************************************)
\* the reduction chain closing the Focal, Dice and Tversky functors
ReduceOrRaise(reduction, loss) ==
    IF reduction = PyNone THEN loss
    ELSE IF reduction = PyStr("mean") THEN MeanT(loss)
    ELSE IF reduction = PyStr("sum") THEN SumT(loss)
    ELSE Raise("ValueError")

\* torch's own losses: _Reduction.get_enum(reduction), then the reduction
TorchReduce(reduction, loss) ==
    IF reduction = PyStr("none") THEN loss
    ELSE IF reduction = PyStr("mean") THEN MeanT(loss)
    ELSE IF reduction = PyStr("sum") THEN SumT(loss)
    ELSE Raise("ValueError")

(***************************************************************************)
(* Ground truth is a tensor or a Python sequence (PyList) of tensors.  A   *)
(* normalised ground truth is [t |-> "gt", target, mask], mask PyNone when *)
(* absent.                                                                 *)
(***************************************************************************)
GT(target, mask) == [t |-> "gt", target |-> target, mask |-> mask]

\* MaskedContrastiveLoss.forward, MaskedBinaryCrossEntropy.forward: the
\* last branch is a bare else
GroundTruthElse(gt) ==
    IF IsTensor(gt) THEN GT(gt, PyNone)
    ELSE IF Len(gt.v) = 1 THEN GT(gt.v[1], PyNone)
    ELSE IF Len(gt.v) = 0 THEN Raise("IndexError")
    ELSE GT(gt.v[1], gt.v[2])

\* MaskedCrossEntropyLoss, MaskedFocalLoss, MaskedDiceLoss: the last branch
\* raises
GroundTruthStrict(gt) ==
    IF IsTensor(gt) THEN GT(gt, PyNone)
    ELSE IF Len(gt.v) = 1 THEN GT(gt.v[1], PyNone)
    ELSE IF Len(gt.v) = 2 THEN GT(gt.v[1], gt.v[2])
    ELSE Raise("ValueError")

(***************************************************************************)
(* MaskedContrastiveLoss                                                   *)
(***************************************************************************)
NewMaskedContrastiveLoss(pos_weight, reduction) ==
    [t |-> "obj", cls |-> "MaskedContrastiveLoss",
     pos_weight |-> pos_weight, reduction |-> reduction]

ContrastiveForward(self, logits, ground_truth) ==
    LET g == GroundTruthElse(ground_truth)
    IN  IF IsErr(g) THEN g
        ELSE IF self.pos_weight = PyNone THEN Raise("TypeError")
        ELSE
        LET target == g.target
            negpw == Scalar(FNeg(self.pos_weight.v))
            one == Scalar(Scale)
            pos == BinT("mul", BinT("mul", negpw, target), logits)
            neg == BinT("mul", BinT("sub", one, target), logits)
            loss == BinT("add", pos, neg)
            masked == IF g.mask = PyNone THEN loss
                      ELSE BinT("mul", ToFloat32(g.mask), loss)
        IN  IF IsErr(pos) THEN pos
            ELSE IF IsErr(masked) THEN masked
            ELSE IF self.reduction = PyStr("mean") THEN MeanT(masked)
            ELSE masked

(***************************************************************************)
(* torch.nn.BCEWithLogitsLoss and MaskedBinaryCrossEntropy                 *)
(***************************************************************************)
NewBCEWithLogitsLoss(reduction, pos_weight) ==
    [t |-> "obj", cls |-> "BCEWithLogitsLoss",
     reduction |-> reduction, pos_weight |-> pos_weight]

\* pos_weight * t * softplus(-x) + (1 - t) * softplus(x) per element
BCEElement(pw, x, t) ==
    FAdd(FMul(FMul(pw, t), Softplus(0 - (x \div Scale))),
         FMul(FSub(Scale, t), Softplus(x \div Scale)))

BCEWithLogitsForward(self, input, target) ==
    IF ~IsTensor(target) THEN Raise("TypeError")
    ELSE IF ~(self.reduction \in {PyStr("none"), PyStr("mean"), PyStr("sum")})
    THEN Raise("ValueError")
    ELSE IF target.shape # input.shape THEN Raise("ValueError")
    ELSE LET pw == IF self.pos_weight = PyNone THEN Scale
                   ELSE self.pos_weight.data[1]
             tf == ToFloat32(target)
             loss == Tensor("float", input.shape,
                            [i \in 1..Numel(input) |->
                               BCEElement(pw, input.data[i], tf.data[i])])
         IN  TorchReduce(self.reduction, loss)

NewMaskedBinaryCrossEntropy(reduction, pos_weight) ==
    [t |-> "obj", cls |-> "MaskedBinaryCrossEntropy", reduction |-> reduction,
     loss_fn |-> NewBCEWithLogitsLoss(reduction, pos_weight)]

MaskedBCEForward(self, logits, ground_truth) ==
    LET g == GroundTruthElse(ground_truth)
    IN  IF IsErr(g) THEN g
        ELSE IF g.mask = PyNone
        THEN BCEWithLogitsForward(self.loss_fn, logits, g.target)
        ELSE LET target == BoolIndex(g.target, g.mask)
                 sel == BoolIndex(logits, g.mask)
             IN  IF IsErr(target) THEN target
                 ELSE IF IsErr(sel) THEN sel
                 ELSE BCEWithLogitsForward(self.loss_fn, sel, target)

(***************************************************************************)
(* The selection of the valid elements: [t |-> "sel", logits, target].     *)
(***************************************************************************)
Sel(logits, target) == [t |-> "sel", logits |-> logits, target |-> target]

(***************************************************************************)
(* MaskedCrossEntropyLoss                                                  *)
(***************************************************************************)
NewMaskedCrossEntropyLoss(mean) ==
    [t |-> "obj", cls |-> "MaskedCrossEntropyLoss", mean |-> mean]

\* a faulty variant of MaskedCESelect: the mask is never applied
MaskedCESelectIgnoringMask(logits, target, mask) ==
    Sel(ReshapeInfer(logits, <<Last(logits.shape)>>),
        ToInt64(ReshapeInfer(target, <<1>>)))

\* lines 220-229: masked_logits_flat and masked_target_flat
MaskedCESelect(logits, target, mask) ==
    IF mask # PyNone
    THEN LET mask_flat == ReshapeInfer(mask, <<1>>)
             nclasses == Last(logits.shape)
             logits_flat == ReshapeInfer(logits, <<nclasses>>)
             picked == BoolIndex(logits_flat, Repeat1(mask_flat, nclasses))
             target_flat == ReshapeInfer(target, <<1>>)
             tpicked == BoolIndex(target_flat, mask_flat)
         IN  IF IsErr(picked) THEN picked
             ELSE IF IsErr(tpicked) THEN tpicked
             ELSE Sel(ReshapeInfer(picked, <<nclasses>>),
                      ToInt64(Unsqueeze(tpicked)))
    ELSE Sel(ReshapeInfer(logits, <<Last(logits.shape)>>),
             ToInt64(ReshapeInfer(target, <<1>>)))

MaskedCEForward(self, logits, ground_truth) ==
    LET g == GroundTruthStrict(ground_truth)
    IN  IF IsErr(g) THEN g
        ELSE LET sel == MaskedCESelect(logits, g.target, g.mask)
             IN  IF IsErr(sel) THEN sel
                 ELSE LET masked_log_probs_flat == LogSoftmax(sel.logits)
                          gathered == Gather(masked_log_probs_flat, sel.target)
                      IN  IF IsErr(gathered) THEN gathered
                          ELSE LET masked_losses_flat ==
                                       BinT("sub", Scalar(0), gathered)
                               IN  IF self.mean THEN MeanT(masked_losses_flat)
                                   ELSE masked_losses_flat

(***************************************************************************)
(* MaskedFocalLoss and FocalLoss                                           *)
(***************************************************************************)
\* x.type(): the tensor type string of x
DefaultType == "torch.FloatTensor"
TypeOf(x) == IF "type" \in DOMAIN x THEN x.type ELSE DefaultType

\* x.type_as(y): x with the tensor type ty of y
WithType(x, ty) ==
    [t |-> "tensor", dtype |-> x.dtype, shape |-> x.shape, data |-> x.data,
     type |-> ty]

\* __init__: a float alpha becomes [alpha, 1 - alpha], a list its tensor,
\* both made by torch.Tensor(...)
FocalAlpha(alpha) ==
    IF alpha.t = "float"
    THEN WithType(Tensor("float", <<2>>, <<alpha.v, Scale - alpha.v>>), DefaultType)
    ELSE IF alpha.t = "list"
    THEN WithType(Tensor("float", <<Len(alpha.v)>>, alpha.v), DefaultType)
    ELSE alpha

NewMaskedFocalLoss(gamma, alpha, reduction) ==
    [t |-> "obj", cls |-> "MaskedFocalLoss", gamma |-> gamma,
     alpha |-> FocalAlpha(alpha), reduction |-> reduction]

NewFocalLoss(gamma, alpha, reduction) ==
    [t |-> "obj", cls |-> "FocalLoss", gamma |-> gamma,
     alpha |-> FocalAlpha(alpha), reduction |-> reduction]

\* lines 263-269: target and logits after the optional selection
MaskedFocalSelect(logits, target0, mask0) ==
    LET target == ToInt64(ReshapeInfer(target0, <<1>>))
        flat == ReshapeInfer(logits, <<Last(logits.shape)>>)
    IN  IF mask0 # PyNone
        THEN LET mask == ReshapeInfer(mask0, <<1>>)
                 tpicked == BoolIndex(target, mask)
                 picked == BoolIndex(flat, Repeat1(mask, Last(flat.shape)))
             IN  IF IsErr(tpicked) THEN tpicked
                 ELSE IF IsErr(picked) THEN picked
                 ELSE Sel(ReshapeInfer(picked, <<Last(flat.shape)>>), tpicked)
        ELSE Sel(flat, target)

\* lines 279-292 and 385-397: alpha weighting, focal term and reduction,
\* self.alpha being read when line 279 runs
FocalTail(self, logpt, pt, target) ==
    LET at == IF self.alpha = PyNone THEN PyNone
              ELSE Gather(self.alpha, ReshapeInfer(target, <<>>))
        wlogpt == IF self.alpha = PyNone THEN logpt
                  ELSE IF IsErr(at) THEN at
                  ELSE BinT("mul", logpt, at)
    IN  IF IsErr(wlogpt) THEN wlogpt
        ELSE LET focal == PowT(BinT("sub", Scalar(Scale), pt), self.gamma)
                 loss == BinT("mul", BinT("mul", Scalar(0 - Scale), focal), wlogpt)
             IN  ReduceOrRaise(self.reduction, loss)

\* logpt and target when line 276 / 382 is reached
FocalLocals(logpt, target) == [t |-> "head", logpt |-> logpt, target |-> target]

\* MaskedFocalLoss.forward, lines 252-274
MaskedFocalHead(logits, ground_truth) ==
    LET g == GroundTruthStrict(ground_truth)
    IN  IF IsErr(g) THEN g
        ELSE LET sel == MaskedFocalSelect(logits, g.target, g.mask)
             IN  IF IsErr(sel) THEN sel
                 ELSE LET gathered == Gather(LogSoftmax(sel.logits),
                                             Unsqueeze(sel.target))
                      IN  IF IsErr(gathered) THEN gathered
                          ELSE FocalLocals(ReshapeInfer(gathered, <<>>), sel.target)

\* FocalLoss.forward, lines 371-380
FocalHead(input, target0) ==
    IF Dim(input) > 2 THEN Raise("Unmodelled")
    ELSE IF ~IsTensor(target0) THEN Raise("AttributeError")
    ELSE LET target == ReshapeInfer(target0, <<1>>)
             gathered == Gather(LogSoftmax(input), target)
         IN  IF target.dtype # "int64" THEN Raise("RuntimeError")
             ELSE IF IsErr(gathered) THEN gathered
             ELSE FocalLocals(ReshapeInfer(gathered, <<>>), target)

\* forward run to its end against self as it is when the call starts
MaskedFocalForward(self, logits, ground_truth) ==
    LET h == MaskedFocalHead(logits, ground_truth)
    IN  IF IsErr(h) THEN h ELSE FocalTail(self, h.logpt, ExpT(h.logpt), h.target)

FocalForward(self, input, target0) ==
    LET h == FocalHead(input, target0)
    IN  IF IsErr(h) THEN h ELSE FocalTail(self, h.logpt, ExpT(h.logpt), h.target)

(***************************************************************************)
(* MaskedDiceLoss                                                          *)
(***************************************************************************)
NewMaskedDiceLoss(reduction, label_smoothing, device) ==
    [t |-> "obj", cls |-> "MaskedDiceLoss", reduction |-> reduction,
     label_smoothing |-> label_smoothing, device |-> device]

\* lines 319-325: target and logits after the optional selection
MaskedDiceSelect(logits, target0, mask0) ==
    LET target == ToInt64(ReshapeInfer(target0, <<>>))
        flat == ReshapeInfer(logits, <<Last(logits.shape)>>)
    IN  IF mask0 # PyNone
        THEN LET mask == ReshapeInfer(mask0, <<1>>)
                 tpicked == BoolIndex(target, mask)
                 picked == BoolIndex(flat, Repeat1(mask, Last(flat.shape)))
             IN  IF IsErr(tpicked) THEN tpicked
                 ELSE IF IsErr(picked) THEN picked
                 ELSE Sel(ReshapeInfer(picked, <<Last(flat.shape)>>), tpicked)
        ELSE Sel(flat, target)

\* lines 328-335: target_onehot, one row per element
TargetOneHot(self, target, num_classes) ==
    IF Dim(target) # 1 THEN Raise("RuntimeError")
    ELSE IF \E i \in 1..Numel(target) :
                target.data[i] < 0 \/ target.data[i] >= num_classes
    THEN Raise("RuntimeError")
    ELSE LET on == IF self.label_smoothing > 0
                   THEN Scale - self.label_smoothing ELSE Scale
             off == IF self.label_smoothing > 0
                    THEN FDiv(self.label_smoothing, (num_classes - 1) * Scale)
                    ELSE 0
         IN  Tensor("float", <<Numel(target), num_classes>>,
                    [i \in 1..(Numel(target) * num_classes) |->
                       IF target.data[((i - 1) \div num_classes) + 1]
                              = (i - 1) % num_classes
                       THEN on ELSE off])

MaskedDiceForward(self, logits, ground_truth) ==
    LET g == GroundTruthStrict(ground_truth)
    IN  IF IsErr(g) THEN g
        ELSE LET sel == MaskedDiceSelect(logits, g.target, g.mask)
             IN  IF IsErr(sel) THEN sel
                 ELSE
                 LET target_onehot ==
                         TargetOneHot(self, sel.target, Last(sel.logits.shape))
                     predicted_prob == ExpT(LogSoftmax(sel.logits))
                     predicted_prob_pos == Column(predicted_prob, 1)
                 IN  IF IsErr(target_onehot) THEN target_onehot
                     ELSE IF IsErr(predicted_prob_pos) THEN predicted_prob_pos
                     ELSE
                     LET target_pos == Column(target_onehot, 1)
                         inter == SumT(BinT("mul", predicted_prob_pos, target_pos))
                         union == BinT("add", SumT(predicted_prob_pos),
                                       SumT(target_pos))
                         loss == BinT("sub", Scalar(Scale),
                                      BinT("div", BinT("mul", Scalar(2 * Scale), inter),
                                           union))
                     IN  ReduceOrRaise(self.reduction, loss)

(***************************************************************************)
(* FocalTverskyLoss                                                        *)
(***************************************************************************)
NewFocalTverskyLoss(smooth, alpha, beta, gamma, reduction) ==
    [t |-> "obj", cls |-> "FocalTverskyLoss", smooth |-> smooth, alpha |-> alpha,
     beta |-> beta, gamma |-> gamma, reduction |-> reduction]

FocalTverskyForward(self, inputs0, targets0) ==
    IF Dim(inputs0) > 2 THEN Raise("Unmodelled")
    ELSE IF ~IsTensor(targets0) THEN Raise("AttributeError")
    ELSE
    LET inputs == ExpT(LogSoftmax(inputs0))
        targets == ReshapeInfer(targets0, <<>>)
        p1 == Column(inputs, 1)
        p0 == Column(inputs, 0)
    IN  IF IsErr(p1) THEN p1
        ELSE IF Numel(targets) # Numel(p1) THEN Raise("RuntimeError")
        ELSE
        LET TP == SumT(BinT("mul", p1, targets))
            FP == SumT(BinT("mul", BinT("sub", Scalar(Scale), targets), p1))
            FN == SumT(BinT("mul", targets, p0))
            smooth == Scalar(self.smooth.v)
            den == BinT("add",
                     BinT("add",
                       BinT("add", TP, BinT("mul", Scalar(self.alpha.v), FP)),
                       BinT("mul", Scalar(self.beta.v), FN)),
                     smooth)
            Tversky == BinT("div", BinT("add", TP, smooth), den)
            loss == PowT(BinT("sub", Scalar(Scale), Tversky), self.gamma)
        IN  ReduceOrRaise(self.reduction, loss)

(***************************************************************************)
(* torch.nn.CrossEntropyLoss on (N, C) logits and (N,) class indices       *)
(***************************************************************************)
NewCrossEntropyLoss(weight, reduction, label_smoothing) ==
    [t |-> "obj", cls |-> "CrossEntropyLoss", weight |-> weight,
     reduction |-> reduction, label_smoothing |-> label_smoothing]

CrossEntropyForward(self, input, target) ==
    IF ~IsTensor(target) THEN Raise("TypeError")
    ELSE IF ~(self.reduction \in {PyStr("none"), PyStr("mean"), PyStr("sum")})
    THEN Raise("ValueError")
    ELSE IF Dim(input) # 2 \/ Dim(target) # 1 \/ target.dtype # "int64"
    THEN Raise("RuntimeError")
    ELSE IF target.shape[1] # input.shape[1] THEN Raise("ValueError")
    ELSE IF self.weight # PyNone /\ Numel(self.weight) # input.shape[2]
    THEN Raise("RuntimeError")
    ELSE IF \E i \in 1..Numel(target) :
                target.data[i] < 0 \/ target.data[i] >= input.shape[2]
    THEN Raise("IndexError")
    ELSE
    LET c == input.shape[2]
        n == input.shape[1]
        logp == LogSoftmax(input)
        w(k) == IF self.weight = PyNone THEN Scale ELSE self.weight.data[k + 1]
        eps == self.label_smoothing
        nll(i) == FMul(w(target.data[i]), 0 - logp.data[(i - 1) * c + target.data[i] + 1])
        smooth(i) == SumSeq([k \in 1..c |-> FMul(w(k - 1), 0 - logp.data[(i - 1) * c + k])])
        elem(i) == IF eps = 0 THEN nll(i)
                   ELSE FAdd(FMul(Scale - eps, nll(i)),
                             FMul(FDiv(eps, c * Scale), smooth(i)))
        losses == Tensor("float", <<n>>, [i \in 1..n |-> elem(i)])
        wsum == SumSeq([i \in 1..n |-> w(target.data[i])])
    IN  IF self.reduction = PyStr("mean")
        THEN Scalar(FDiv(SumSeq(losses.data), wsum))
        ELSE TorchReduce(self.reduction, losses)

(***************************************************************************)
(* CombinedLoss                                                            *)
(***************************************************************************)
NewCombinedLoss(loss_fns, weights) ==
    [t |-> "obj", cls |-> "CombinedLoss", loss_fns |-> loss_fns,
     weights |-> weights]

(***************************************************************************)
(* nn.Module.__call__: the forward of an elementary loss object.           *)
(***************************************************************************)
Call(self, input, ground_truth) ==
    IF self.t # "obj" THEN Raise("TypeError")
    ELSE CASE self.cls = "MaskedContrastiveLoss" ->
                  ContrastiveForward(self, input, ground_truth)
           [] self.cls = "BCEWithLogitsLoss" ->
                  BCEWithLogitsForward(self, input, ground_truth)
           [] self.cls = "MaskedBinaryCrossEntropy" ->
                  MaskedBCEForward(self, input, ground_truth)
           [] self.cls = "CrossEntropyLoss" ->
                  CrossEntropyForward(self, input, ground_truth)
           [] self.cls = "MaskedCrossEntropyLoss" ->
                  MaskedCEForward(self, input, ground_truth)
           [] self.cls = "MaskedFocalLoss" ->
                  MaskedFocalForward(self, input, ground_truth)
           [] self.cls = "FocalLoss" ->
                  FocalForward(self, input, ground_truth)
           [] self.cls = "MaskedDiceLoss" ->
                  MaskedDiceForward(self, input, ground_truth)
           [] self.cls = "FocalTverskyLoss" ->
                  FocalTverskyForward(self, input, ground_truth)

(***************************************************************************)
(* Configuration: [t |-> "config", MODEL |-> dict, SOLVER |-> dict], a     *)
(* dict being a function from its keys to Python values.                   *)
(***************************************************************************)
\* deepsat.utils.config_files_utils.get_params_values: the "get with
\* default" accessor (a key that is absent, or present with None, gives the
\* default)
get_params_values(args, key, default) ==
    IF key \in DOMAIN args /\ args[key] # PyNone THEN args[key] ELSE default

\* config['SOLVER'][key]
Subscript(d, key) == IF key \in DOMAIN d THEN d[key] ELSE Raise("KeyError")

\* lines 58-63, 105-110: the two class weights made from pos_weight
PosWeightTensor(pos_weight) ==
    LET weight_1 == FDiv(Scale, pos_weight)
        weight_2 == Scale
        total_weight == FAdd(weight_1, weight_2)
    IN  Tensor("float", <<2>>,
               <<FDiv(weight_1, total_weight), FDiv(weight_2, total_weight)>>)

\* lines 47-50: the class-weight vector of 'cross_entropy'
ClassWeightTensor(num_classes, class_weights) ==
    IF num_classes = PyNone THEN Raise("TypeError")
    ELSE IF IsErr(class_weights) THEN class_weights
    ELSE IF class_weights = PyNone \/ class_weights = PyDict(<<>>)
    THEN Tensor("float", <<num_classes.v>>, [k \in 1..num_classes.v |-> Scale])
    ELSE IF \E key \in DOMAIN class_weights.v : key >= num_classes.v
    THEN Raise("IndexError")
    ELSE Tensor("float", <<num_classes.v>>,
                [k \in 1..num_classes.v |->
                   IF (k - 1) \in DOMAIN class_weights.v
                   THEN class_weights.v[k - 1] ELSE Scale])

\* lines 55-67, 102-114: torch.nn.CrossEntropyLoss weighted by pos_weight
WeightedCrossEntropy(loss_config, device, reduction) ==
    LET label_smoothing == get_params_values(loss_config, "label_smoothing", PyFloat(0))
        pos_weight == Subscript(loss_config, "pos_weight")
    IN  IF IsErr(pos_weight) THEN pos_weight
        ELSE IF pos_weight # PyNone
        THEN NewCrossEntropyLoss(PosWeightTensor(pos_weight.v), reduction,
                                 label_smoothing.v)
        ELSE NewCrossEntropyLoss(PyNone, reduction, label_smoothing.v)

\* get_loss for one identifier (lines 26-117); falling off the end of the
\* chain returns None
GetLossOne(config, device, reduction) ==
    LET model_config == config.MODEL
        loss_config == config.SOLVER
        name == loss_config["loss_function"].v
    IN  IF name \in {"contrastive_loss", "masked_contrastive_loss"}
        THEN NewMaskedContrastiveLoss(
                 get_params_values(loss_config, "pos_weight", PyFloat(Scale)),
                 reduction)
        ELSE IF name = "binary_cross_entropy"
        THEN NewBCEWithLogitsLoss(
                 IF reduction = PyNone THEN PyStr("none") ELSE reduction, PyNone)
        ELSE IF name = "masked_binary_cross_entropy"
        THEN LET pos_weight == Subscript(loss_config, "pos_weight")
             IN  IF IsErr(pos_weight) THEN pos_weight
                 ELSE NewMaskedBinaryCrossEntropy(
                          reduction,
                          IF pos_weight # PyNone
                          THEN Scalar(pos_weight.v) ELSE pos_weight)
        ELSE IF name = "cross_entropy"
        THEN LET num_classes == get_params_values(model_config, "num_classes", PyNone)
                 weight == ClassWeightTensor(num_classes,
                                             Subscript(loss_config, "class_weights"))
             IN  IF IsErr(weight) THEN weight
                 ELSE NewCrossEntropyLoss(weight, reduction, 0)
        ELSE IF name = "weight_cross_entropy"
        THEN WeightedCrossEntropy(loss_config, device, reduction)
        ELSE IF name = "masked_cross_entropy"
        THEN NewMaskedCrossEntropyLoss(reduction = PyStr("mean"))
        ELSE IF name \in {"focal_loss", "masked_focal_loss"}
        THEN LET gamma == get_params_values(loss_config, "gamma", PyFloat(Scale))
                 alpha == get_params_values(loss_config, "alpha", PyNone)
             IN  IF name = "focal_loss"
                 THEN NewFocalLoss(gamma.v \div Scale, alpha, reduction)
                 ELSE NewMaskedFocalLoss(gamma.v \div Scale, alpha, reduction)
        ELSE IF name = "masked_dice_loss"
        THEN NewMaskedDiceLoss(
                 reduction,
                 get_params_values(loss_config, "label_smoothing", PyFloat(0)).v,
                 device)
        ELSE IF name \in {"tversky_loss", "focal_tversky_loss"}
        THEN LET smooth == get_params_values(loss_config, "smooth", PyFloat(Scale))
                 alpha == get_params_values(loss_config, "alpha", PyFloat(Scale \div 2))
                 beta == get_params_values(loss_config, "beta", PyFloat(Scale \div 2))
                 gamma == IF name = "tversky_loss" THEN PyFloat(Scale)
                          ELSE get_params_values(loss_config, "gamma", PyFloat(Scale))
             IN  NewFocalTverskyLoss(smooth, alpha, beta, gamma.v \div Scale, reduction)
        ELSE IF name = "combined_dice_ce"
        THEN LET dice == NewMaskedDiceLoss(reduction, 0, device)
                 ce == WeightedCrossEntropy(loss_config, device, reduction)
                 weights == get_params_values(
                                loss_config, "loss_weights",
                                PyList(<<Scale \div 2, Scale \div 2>>))
             IN  IF IsErr(ce) THEN ce
                 ELSE NewCombinedLoss(<<dice, ce>>, weights.v)
        ELSE PyNone

(***************************************************************************)
(* The configurations, reductions and inputs the model draws from.         *)
(***************************************************************************)
Device == "cpu"

\* every identifier of get_loss's chain, and one that is not in it
SupportedLosses ==
    {"contrastive_loss", "masked_contrastive_loss", "binary_cross_entropy",
     "masked_binary_cross_entropy", "cross_entropy", "weight_cross_entropy",
     "masked_cross_entropy", "focal_loss", "masked_focal_loss",
     "masked_dice_loss", "tversky_loss", "focal_tversky_loss",
     "combined_dice_ce"}
LossNames == SupportedLosses \cup {"hinge_loss"}

\* identifiers used inside a list-valued loss_function
ListLossNames ==
    {"focal_loss", "masked_dice_loss", "masked_cross_entropy",
     "weight_cross_entropy", "hinge_loss"}

\* the losses scored element by element of the logits (target and mask have
\* the logits' full shape); the others score rows of class scores
ElementwiseClasses ==
    {"MaskedContrastiveLoss", "BCEWithLogitsLoss", "MaskedBinaryCrossEntropy"}

\* the tunables of the SOLVER section: absent, present with their neutral
\* values, present with tuned values
SolverTunables ==
    { <<>>,
      [pos_weight |-> PyNone, class_weights |-> PyNone,
       label_smoothing |-> PyFloat(0)],
      [pos_weight |-> PyFloat(2 * Scale), class_weights |-> PyDict(1 :> 2 * Scale),
       label_smoothing |-> PyFloat(Scale \div 10), gamma |-> PyFloat(2 * Scale),
       alpha |-> PyFloat(Scale \div 4), smooth |-> PyFloat(Scale),
       beta |-> PyFloat(Scale \div 2),
       loss_weights |-> PyList(<<Scale, Scale \div 2>>)] }

Config(loss_function, tunables) ==
    [t |-> "config",
     MODEL |-> [num_classes |-> PyInt(NumClasses)],
     SOLVER |-> ("loss_function" :> loss_function) @@ tunables]

RECURSIVE SeqsUpTo(_, _)
\* the sequences over S of length 1..n
SeqsUpTo(S, n) ==
    IF n = 0 THEN {}
    ELSE {<<x>> : x \in S}
         \cup SeqsUpTo(S, n - 1)
         \cup {Append(s, x) : s \in SeqsUpTo(S, n - 1), x \in S}

Reductions == {PyStr("mean"), PyStr("sum"), PyStr("none"), PyNone, PyStr("max")}

RECURSIVE Tuples(_, _)
\* the sequences over S of length exactly n
Tuples(S, n) ==
    IF n = 0 THEN {<<>>}
    ELSE {Append(s, x) : s \in Tuples(S, n - 1), x \in S}

RECURSIVE Flatten(_)
Flatten(rows) == IF rows = <<>> THEN <<>> ELSE Head(rows) \o Flatten(Tail(rows))

ClassRows == {<<0, Scale>>, <<Scale, 0>>}

\* logits (m, NumClasses), class indices (m,), boolean mask (m,)
ClassLogits(m) ==
    {Tensor("float", <<m, NumClasses>>, Flatten(rows)) : rows \in Tuples(ClassRows, m)}
ClassTargets(m) == {Tensor("int64", <<m>>, d) : d \in Tuples(0..(NumClasses - 1), m)}
ClassMasks(m) == {Tensor("bool", <<m>>, d) : d \in Tuples({0, 1}, m)}

\* logits (m, 1), 0/1 float targets (m, 1), boolean mask (m, 1)
ElemLogits(m) == {Tensor("float", <<m, 1>>, d) : d \in Tuples({0, Scale}, m)}
ElemTargets(m) == {Tensor("float", <<m, 1>>, d) : d \in Tuples({0, Scale}, m)}
ElemMasks(m) == {Tensor("bool", <<m, 1>>, d) : d \in Tuples({0, 1}, m)}

\* the forms a caller gives the ground truth in
GroundTruths(targets, masks) ==
    targets
    \cup {PyList(<<tg>>) : tg \in targets}
    \cup {PyList(<<tg, mk>>) : tg \in targets, mk \in masks}
    \cup {PyList(<<tg, mk, mk>>) : tg \in targets, mk \in masks}
    \cup {PyList(<<>>)}

Elementwise(criterion) ==
    criterion.t = "obj" /\ criterion.cls \in ElementwiseClasses

(***************************************************************************)
(* State.                                                                  *)
(***************************************************************************)
VARIABLES
    pc,          \* "setup", "get_loss_loop", "raised", "built", "forward_loop",
                 \* "done", "per_class_loop", "per_class_done", "invoking"
    config,      \* the configuration given to get_loss
    reduction,   \* the reduction given to get_loss
    frame,       \* the locals of the running function: get_loss's loop over a
                 \* list of identifiers, per_class_loss, or the forward
                 \* invocations in progress
    criterion,   \* what get_loss returned or raised, or a caller's loss object
    logits,      \* first argument of forward, second of per_class_loss
    ground_truth,\* second argument of forward
    acc,         \* the locals of CombinedLoss.forward: loss, calls
    out          \* what forward or per_class_loss returned or raised

vars == <<pc, config, reduction, frame, criterion, logits, ground_truth, acc, out>>

Unset == [t |-> "unset"]

Init ==
    /\ pc = "setup"
    /\ config = Unset
    /\ reduction = Unset
    /\ frame = Unset
    /\ criterion = Unset
    /\ logits = Unset
    /\ ground_truth = Unset
    /\ acc = Unset
    /\ out = Unset

(***************************************************************************)
(* get_loss                                                                *)
(***************************************************************************)
\* get_loss(config, device, reduction) with one identifier
GetLoss(cfg, red) ==
    /\ pc = "setup"
    /\ cfg.SOLVER["loss_function"].t = "str"
    /\ config' = cfg
    /\ reduction' = red
    /\ criterion' = GetLossOne(cfg, Device, red)
    /\ pc' = IF IsErr(criterion') THEN "raised" ELSE "built"
    /\ UNCHANGED <<frame, logits, ground_truth, acc, out>>

\* lines 17-20: a list or tuple of identifiers
GetLossListEnter(cfg, red) ==
    /\ pc = "setup"
    /\ cfg.SOLVER["loss_function"].t = "list"
    /\ config' = cfg
    /\ reduction' = red
    /\ frame' = [t |-> "frame", loss_fun |-> <<>>,
                 loss_types |-> cfg.SOLVER["loss_function"].v,
                 config_ |-> cfg, next |-> 1]
    /\ pc' = "get_loss_loop"
    /\ UNCHANGED <<criterion, logits, ground_truth, acc, out>>

\* a faulty variant of ListStep: the recursive call leaves reduction at its default
ListStepDefaultReduction(f, red) ==
    LET loss_fun_type == f.loss_types[f.next]
        config_ == [f.config_ EXCEPT !.SOLVER["loss_function"] = PyStr(loss_fun_type)]
    IN  [f EXCEPT !.config_ = config_,
                  !.loss_fun = Append(@, GetLossOne(config_, Device, PyStr("mean"))),
                  !.next = @ + 1]

\* lines 21-23: one iteration of the loop
ListStep(f, red) ==
    LET loss_fun_type == f.loss_types[f.next]
        config_ == [f.config_ EXCEPT !.SOLVER["loss_function"] = PyStr(loss_fun_type)]
    IN  [f EXCEPT !.config_ = config_,
                  !.loss_fun = Append(@, GetLossOne(config_, Device, red)),
                  !.next = @ + 1]

GetLossListStep ==
    /\ pc = "get_loss_loop"
    /\ frame.next <= Len(frame.loss_types)
    /\ LET f == ListStep(frame, reduction)
       IN  IF IsErr(Last(f.loss_fun))
           THEN /\ criterion' = Last(f.loss_fun)
                /\ pc' = "raised"
                /\ frame' = [f EXCEPT !.loss_fun = frame.loss_fun]
           ELSE /\ frame' = f
                /\ UNCHANGED <<criterion, pc>>
    /\ UNCHANGED <<config, reduction, logits, ground_truth, acc, out>>

\* line 24
GetLossListReturn ==
    /\ pc = "get_loss_loop"
    /\ frame.next > Len(frame.loss_types)
    /\ criterion' = PyList(frame.loss_fun)
    /\ pc' = "built"
    /\ UNCHANGED <<config, reduction, frame, logits, ground_truth, acc, out>>

\* CombinedLoss(loss_fns, weights) built by a caller
CombinedLossInit(loss_fns, weights) ==
    /\ pc = "setup"
    /\ criterion' = NewCombinedLoss(loss_fns, weights)
    /\ pc' = "built"
    /\ UNCHANGED <<config, reduction, frame, logits, ground_truth, acc, out>>

(***************************************************************************)
(* forward                                                                 *)
(***************************************************************************)
\* criterion(logits, ground_truth) of an elementary loss
Forward(x, gt) ==
    /\ pc = "built"
    /\ criterion.t \in {"obj", "None"}
    /\ criterion.t = "obj" => criterion.cls # "CombinedLoss"
    /\ logits' = x
    /\ ground_truth' = gt
    /\ out' = Call(criterion, x, gt)
    /\ pc' = "done"
    /\ UNCHANGED <<config, reduction, frame, criterion, acc>>

\* CombinedLoss.forward, line 451
CombinedForwardEnter(x, gt) ==
    /\ pc = "built"
    /\ criterion.t = "obj"
    /\ criterion.cls = "CombinedLoss"
    /\ logits' = x
    /\ ground_truth' = gt
    /\ acc' = [t |-> "acc", loss |-> Scalar(0), calls |-> <<>>, i |-> 0]
    /\ pc' = "forward_loop"
    /\ UNCHANGED <<config, reduction, frame, criterion, out>>

\* a faulty variant of CombinedAccumulate: the weight is not applied
CombinedAccumulateUnweighted(self, a, r) ==
    IF IsErr(r)
    THEN [a EXCEPT !.loss = r]
    ELSE [a EXCEPT !.loss = BinT("add", @, r), !.i = @ + 1]

\* line 453 once the sub-loss has returned or raised r
CombinedAccumulate(self, a, r) ==
    IF IsErr(r)
    THEN [a EXCEPT !.loss = r]
    ELSE [a EXCEPT !.loss = BinT("add", @,
                                 BinT("mul", Scalar(self.weights[a.i + 1]), r)),
                   !.i = @ + 1]

\* lines 452-453: loss += self.weights[i] * loss_fn(inputs, targets)
CombinedStep(self, a, inputs, targets) ==
    IF a.i + 1 > Len(self.weights)
    THEN [a EXCEPT !.loss = Raise("IndexError")]
    ELSE CombinedAccumulate(
             self,
             [a EXCEPT !.calls = Append(@, [fn |-> a.i + 1, inputs |-> inputs,
                                            targets |-> targets])],
             Call(self.loss_fns[a.i + 1], inputs, targets))

CombinedForwardStep ==
    /\ pc = "forward_loop"
    /\ acc.i < Len(criterion.loss_fns)
    /\ \E a \in {CombinedStep(criterion, acc, logits, ground_truth)} :
           /\ acc' = a
           /\ IF IsErr(a.loss)
              THEN out' = a.loss /\ pc' = "done"
              ELSE UNCHANGED <<out, pc>>
    /\ UNCHANGED <<config, reduction, frame, criterion, logits, ground_truth>>

\* line 454
CombinedForwardReturn ==
    /\ pc = "forward_loop"
    /\ acc.i >= Len(criterion.loss_fns)
    /\ out' = acc.loss
    /\ pc' = "done"
    /\ UNCHANGED <<config, reduction, frame, criterion, logits, ground_truth, acc>>

(***************************************************************************)
(* The driver: build a loss at setup, then invoke it.                      *)
(***************************************************************************)
\* sub-losses and weights a caller builds a CombinedLoss from
DirectLosses ==
    {NewMaskedCrossEntropyLoss(TRUE), NewMaskedDiceLoss(PyStr("mean"), 0, Device)}
DirectWeights == {Scale \div 2, 2 * Scale}

\* the (logits, ground_truth) pairs of m elements for a criterion
Inputs(crit, m) ==
    IF Elementwise(crit)
    THEN ElemLogits(m) \X GroundTruths(ElemTargets(m), ElemMasks(m))
    ELSE ClassLogits(m) \X GroundTruths(ClassTargets(m), ClassMasks(m))

Next ==
    \/ \E name \in LossNames, tun \in SolverTunables, red \in Reductions :
           GetLoss(Config(PyStr(name), tun), red)
    \/ \E names \in SeqsUpTo(ListLossNames, MaxList), red \in Reductions :
           GetLossListEnter(Config(PyList(names), <<>>), red)
    \/ GetLossListStep
    \/ GetLossListReturn
    \/ \E fns \in SeqsUpTo(DirectLosses, MaxList),
          ws \in SeqsUpTo(DirectWeights, MaxList) :
           CombinedLossInit(fns, ws)
    \/ \E m \in 1..MaxElems : \E a \in Inputs(criterion, m) : Forward(a[1], a[2])
    \/ \E m \in 1..MaxCombinedElems : \E a \in Inputs(criterion, m) :
           CombinedForwardEnter(a[1], a[2])
    \/ CombinedForwardStep
    \/ CombinedForwardReturn

Spec == Init /\ [][Next]_vars

(***************************************************************************)
(* Vocabulary of the properties.                                           *)
(***************************************************************************)
MaskedClasses ==
    {"MaskedContrastiveLoss", "MaskedBinaryCrossEntropy",
     "MaskedCrossEntropyLoss", "MaskedFocalLoss", "MaskedDiceLoss"}

Configured == config.t = "config"
SingleLoss == Configured /\ config.SOLVER["loss_function"].t = "str"
ListOfLosses == Configured /\ config.SOLVER["loss_function"].t = "list"
Returned == pc \in {"built", "forward_loop", "done"}
Invoked == pc = "done"
MaskedCriterion == criterion.t = "obj" /\ criterion.cls \in MaskedClasses

HasUnsupported(cfg) ==
    LET lf == cfg.SOLVER["loss_function"]
    IN  IF lf.t = "str" THEN lf.v \notin SupportedLosses
        ELSE \E i \in 1..Len(lf.v) : lf.v[i] \notin SupportedLosses

Bare == IsTensor(ground_truth)
Arity == IF ground_truth.t = "list" THEN Len(ground_truth.v) ELSE 0 - 1
Pair == Arity = 2
AllTrue(mask) == \A i \in 1..Numel(mask) : mask.data[i] = 1

\* the number of elements the caller marked valid
ValidCount ==
    IF Pair THEN SumSeq(ground_truth.v[2].data)
    ELSE IF Elementwise(criterion) THEN Numel(logits) ELSE logits.shape[1]

(***************************************************************************)
(* C1: get_loss fails with an error for every loss_function that is, or    *)
(* contains, an identifier outside the supported names: it never returns   *)
(* normally for such a configuration.                                      *)
(***************************************************************************)
C1_UnknownLossFunctionRaises ==
    (Configured /\ HasUnsupported(config)) => ~Returned

(***************************************************************************)
(* C2: for a list of n identifiers get_loss returns a sequence of exactly  *)
(* n objects, the i-th being what get_loss returns for the i-th identifier *)
(* alone with the same remaining configuration, device and reduction.      *)
(***************************************************************************)
AloneConfig(i) ==
    [config EXCEPT !.SOLVER["loss_function"] =
                       PyStr(config.SOLVER["loss_function"].v[i])]

C2_ListIsPointwise ==
    (ListOfLosses /\ pc = "built") =>
        /\ criterion.t = "list"
        /\ Len(criterion.v) = Len(config.SOLVER["loss_function"].v)
        /\ \A i \in 1..Len(criterion.v) :
               criterion.v[i] = GetLossOne(AloneConfig(i), Device, reduction)

C2_Witness ==
    /\ ListOfLosses
    /\ pc = "built"
    /\ criterion.t = "list"
    /\ Len(criterion.v) = 2
    /\ criterion.v[1].t = "obj"
    /\ criterion.v[2].t = "obj"
    /\ criterion.v[1].cls # criterion.v[2].cls

(***************************************************************************)
(* C3: in every masked functor a ground truth that is a sequence of 0, 3   *)
(* or more elements makes forward fail; it is never read as a              *)
(* (target, mask) pair.                                                    *)
(***************************************************************************)
C3_OtherArityFails ==
    (Invoked /\ MaskedCriterion /\ Arity \notin {0 - 1, 1, 2}) => IsErr(out)

(***************************************************************************)
(* C4: every masked functor completes without a shape or indexing error    *)
(* on a bare target and on a (target, mask) pair of matching shapes.       *)
(***************************************************************************)
ShapeError == IsErr(out) /\ out.exc \in {"IndexError", "RuntimeError"}

C4_BothFormsAccepted ==
    (Invoked /\ MaskedCriterion /\ (Bare \/ Pair)) => ~ShapeError

(***************************************************************************)
(* C5: a masked functor called with (target, mask), the mask true          *)
(* everywhere, returns what it returns for the bare target, and            *)
(* MaskedFocalLoss then returns what FocalLoss returns on the same 2-D     *)
(* logits and target.                                                      *)
(***************************************************************************)
UnmaskedVariant(self) == NewFocalLoss(self.gamma, self.alpha, self.reduction)

C5_AllTrueMaskIsNoMask ==
    (Invoked /\ MaskedCriterion /\ Pair /\ AllTrue(ground_truth.v[2])) =>
        /\ out = Call(criterion, logits, ground_truth.v[1])
        /\ criterion.cls = "MaskedFocalLoss" =>
               out = Call(UnmaskedVariant(criterion), logits, ground_truth.v[1])

(***************************************************************************)
(* C6: elements whose mask is false are excluded entirely.  For every      *)
(* masked functor, replacing the logits and targets at mask-false          *)
(* positions by any other values leaves the outcome of forward unchanged;  *)
(* and where a functor selects the valid elements, the k-th selected       *)
(* logits row and the k-th selected target are those of the k-th           *)
(* mask-true position.                                                     *)
(***************************************************************************)
\* the per-element width of a tensor x under a mask of n elements
Width(x, n) == Numel(x) \div n

\* x and y agree on every element whose mask entry is true
AgreeWhereValid(x, y, mask) ==
    /\ x.shape = y.shape
    /\ \A i \in 1..Numel(x) :
           mask.data[((i - 1) \div Width(x, Numel(mask))) + 1] = 1
               => x.data[i] = y.data[i]

Alternatives(crit, m) ==
    IF Elementwise(crit) THEN ElemLogits(m) \X ElemTargets(m)
    ELSE ClassLogits(m) \X ClassTargets(m)

RECURSIVE TruePositions(_, _)
\* the positions i.. of the mask that are true, in order
TruePositions(mask, i) ==
    IF i > Numel(mask) THEN <<>>
    ELSE IF mask.data[i] = 1 THEN <<i>> \o TruePositions(mask, i + 1)
         ELSE TruePositions(mask, i + 1)

\* sel holds exactly the rows and targets of the mask-true positions
Aligned(sel, x, target, mask) ==
    LET pos == TruePositions(mask, 1)
        c == Last(x.shape)
    IN  /\ sel.t = "sel"
        /\ Numel(sel.target) = Len(pos)
        /\ Numel(sel.logits) = Len(pos) * c
        /\ \A k \in 1..Len(pos) :
               /\ sel.target.data[k] = target.data[pos[k]]
               /\ \A j \in 1..c :
                      sel.logits.data[(k - 1) * c + j] = x.data[(pos[k] - 1) * c + j]

C6_MaskedOutElementsIgnored ==
    (Invoked /\ MaskedCriterion /\ Pair) =>
        LET target == ground_truth.v[1]
            mask == ground_truth.v[2]
        IN  /\ \A alt \in Alternatives(criterion, Numel(mask)) :
                   (AgreeWhereValid(alt[1], logits, mask)
                    /\ AgreeWhereValid(alt[2], target, mask))
                       => Call(criterion, alt[1], PyList(<<alt[2], mask>>)) = out
            /\ criterion.cls = "MaskedCrossEntropyLoss" =>
                   Aligned(MaskedCESelect(logits, target, mask), logits, target, mask)
            /\ criterion.cls = "MaskedFocalLoss" =>
                   Aligned(MaskedFocalSelect(logits, target, mask), logits, target, mask)

C6_Witness ==
    /\ Invoked
    /\ MaskedCriterion
    /\ Pair
    /\ criterion.cls = "MaskedCrossEntropyLoss"
    /\ ground_truth.v[2].data = <<0, 1>>
    /\ ground_truth.v[1].data = <<0, 1>>
    /\ out.t = "tensor"
    /\ Numel(out) = 1

(***************************************************************************)
(* C7: a functor built by get_loss with a reduction string outside         *)
(* {mean, sum, none} never returns a loss value when invoked.              *)
(***************************************************************************)
SupportedReductions == {PyStr("mean"), PyStr("sum"), PyStr("none")}

C7_UnsupportedReductionFails ==
    (Invoked /\ SingleLoss /\ criterion.t = "obj" /\ (Bare \/ Pair)
        /\ reduction.t = "str" /\ reduction \notin SupportedReductions)
        => IsErr(out)

(***************************************************************************)
(* C8: a functor built by get_loss with reduction "mean" or "sum" returns  *)
(* a scalar, never the unreduced per-element tensor.                       *)
(***************************************************************************)
C8_MeanAndSumReturnScalar ==
    (Invoked /\ SingleLoss /\ criterion.t = "obj" /\ (Bare \/ Pair)
        /\ reduction \in {PyStr("mean"), PyStr("sum")} /\ ~IsErr(out))
        => out.shape = <<>>

(***************************************************************************)
(* C9: a functor built by get_loss with reduction None or "none" returns,  *)
(* without error, one loss value per valid element.                        *)
(***************************************************************************)
C9_NoneReturnsPerElement ==
    (Invoked /\ SingleLoss /\ criterion.t = "obj"
        /\ reduction \in {PyNone, PyStr("none")} /\ (Bare \/ Pair))
        => (~IsErr(out) /\ Numel(out) = ValidCount)

(***************************************************************************)
(* C10: CombinedLoss.forward invokes every sub-loss exactly once, in list  *)
(* order, on the identical arguments, and returns the sum over i of        *)
(* weights[i] * loss_fns[i](inputs, targets); with one sub-loss and        *)
(* weights [w] that is w times the sub-loss; no sub-loss is dropped when   *)
(* the two lists differ in length: a shorter weights list makes forward    *)
(* fail, a longer one leaves every sub-loss in the sum.                    *)
(***************************************************************************)
RECURSIVE WeightedSum(_, _, _, _)
\* sum over i in 1..n of weights[i] * loss_fns[i](x, gt)
WeightedSum(self, x, gt, n) ==
    IF n = 0 THEN Scalar(0)
    ELSE BinT("add", WeightedSum(self, x, gt, n - 1),
              BinT("mul", Scalar(self.weights[n]), Call(self.loss_fns[n], x, gt)))

ExpectedCalls(self, x, gt, n) ==
    [i \in 1..n |-> [fn |-> i, inputs |-> x, targets |-> gt]]

C10_CombinedIsWeightedSum ==
    (Invoked /\ criterion.t = "obj" /\ criterion.cls = "CombinedLoss") =>
        LET n == Len(criterion.loss_fns)
        IN  /\ Len(criterion.weights) < n => IsErr(out)
            /\ ~IsErr(out) =>
                   /\ acc.calls = ExpectedCalls(criterion, logits, ground_truth, n)
                   /\ out = WeightedSum(criterion, logits, ground_truth, n)
                   /\ n = 1 => out = BinT("mul", Scalar(criterion.weights[1]),
                                          Call(criterion.loss_fns[1], logits, ground_truth))

C10_Witness ==
    /\ Invoked
    /\ criterion.t = "obj"
    /\ criterion.cls = "CombinedLoss"
    /\ Len(criterion.loss_fns) = 2
    /\ Len(criterion.weights) = 2
    /\ criterion.weights[1] # criterion.weights[2]
    /\ criterion.loss_fns[1] # criterion.loss_fns[2]
    /\ out.t = "tensor"
    /\ out.data[1] > 0

(***************************************************************************)
(* C12: every tunable of the SOLVER section is optional.  For each         *)
(* supported identifier get_loss never fails with a missing-key error,     *)
(* whichever of pos_weight, class_weights, label_smoothing, gamma, alpha,  *)
(* smooth, beta and loss_weights the section omits.                        *)
(***************************************************************************)
C12_TunablesAreOptional ==
    (SingleLoss /\ config.SOLVER["loss_function"].v \in SupportedLosses)
        => ~(IsErr(criterion) /\ criterion.exc = "KeyError")

(***************************************************************************)
(* per_class_loss                                                          *)
(***************************************************************************)
\* labels == class_
EqT(x, c) ==
    Tensor("bool", x.shape, [i \in 1..Numel(x) |-> IF x.data[i] = c THEN 1 ELSE 0])

\* idx.repeat(1, 1, 1, k) of a 4-D tensor idx whose last axis has length 1
RepeatLast(m, k) ==
    IF Dim(m) > 4 THEN Raise("RuntimeError")
    ELSE Tensor(m.dtype, SubSeq(m.shape, 1, Dim(m) - 1) \o <<Last(m.shape) * k>>,
                [i \in 1..(Numel(m) * k) |-> m.data[((i - 1) \div k) + 1]])

\* a criterion whose call signature is (logits, target, mask), the one
\* line 126 uses; it scores with functor(logits, (target, mask))
MaskAwareCriterion(functor) ==
    [t |-> "obj", cls |-> "function", fn |-> functor]

\* criterion(a, b, c): every forward of this module takes two arguments
\* after self, so nn.Module.__call__ with three raises TypeError
Call3(self, a, b, c) ==
    IF self.t # "obj" THEN Raise("TypeError")
    ELSE IF self.cls = "function" THEN Call(self.fn, a, PyList(<<b, c>>))
    ELSE Raise("TypeError")

\* the three arguments of line 126-128 for one class, or what raised
ClassSlice(x, labels, unk_masks, class_, n_classes) ==
    LET idx == EqT(labels, class_)
        rep == RepeatLast(idx, n_classes)
        xs == IF IsErr(rep) THEN rep ELSE BoolIndex(x, rep)
        ls == BoolIndex(labels, idx)
        ms == BoolIndex(unk_masks, idx)
    IN  IF IsErr(xs) THEN xs
        ELSE IF IsErr(ReshapeInfer(xs, <<n_classes>>)) THEN ReshapeInfer(xs, <<n_classes>>)
        ELSE IF IsErr(ls) THEN ls
        ELSE IF IsErr(ms) THEN ms
        ELSE [t |-> "slice", logits |-> ReshapeInfer(xs, <<n_classes>>),
              labels |-> ReshapeInfer(ls, <<1>>),
              unk_masks |-> ReshapeInfer(ms, <<1>>)]

\* a faulty variant of ClassCount: every element of the class is counted
ClassCountIgnoringMask(unk_masks, idx) == SumSeq(idx.data)

\* line 130: unk_masks[idx].sum()
ClassCount(unk_masks, idx) == SumSeq(BoolIndex(unk_masks, idx).data)

\* np.array of a list of equally shaped arrays
NpArray(dtype, xs) ==
    IF \E i \in 1..Len(xs) : xs[i].shape # xs[1].shape THEN Raise("ValueError")
    ELSE Tensor(dtype,
                <<Len(xs)>> \o (IF xs = <<>> THEN <<>> ELSE xs[1].shape),
                Flatten([i \in 1..Len(xs) |-> xs[i].data]))

\* np.nan_to_num(x, nan=0.0)
NanToNum(x) ==
    Tensor(x.dtype, x.shape,
           [i \in 1..Numel(x) |-> IF x.data[i] = NaN THEN 0 ELSE x.data[i]])

\* lines 123-130: one iteration of the loop over the classes, from the
\* locals f to the locals after it, or what the iteration raised
PerClassIteration(criterion_, logits_, f) ==
    LET s == ClassSlice(logits_, f.labels, f.unk_masks, f.class_, f.n_classes)
        r == IF IsErr(s) THEN s
             ELSE Call3(criterion_, s.logits, s.labels, s.unk_masks)
    IN  IF IsErr(r) THEN r
        ELSE [f EXCEPT !.class_loss = Append(@, r),
                       !.class_counts =
                           Append(@, Tensor("int64", <<>>,
                                            <<ClassCount(f.unk_masks,
                                                         EqT(f.labels, f.class_))>>)),
                       !.class_ = @ + 1]

\* the identifiers get_loss builds a masked functor for
MaskedLossNames ==
    {"contrastive_loss", "masked_contrastive_loss", "masked_binary_cross_entropy",
     "masked_cross_entropy", "masked_focal_loss", "masked_dice_loss"}

\* criteria a caller of per_class_loss wraps to the three-argument signature
WrappedCriteria ==
    {MaskAwareCriterion(NewMaskedCrossEntropyLoss(TRUE)),
     MaskAwareCriterion(NewMaskedFocalLoss(1, PyNone, PyStr("mean")))}

\* logits (1, 1, m, NumClasses), labels and unk_masks (1, 1, m, 1)
PerClassLogits(m) ==
    {Tensor(x.dtype, <<1, 1, m, NumClasses>>, x.data) : x \in ClassLogits(m)}
PerClassLabels(m) ==
    {Tensor(x.dtype, <<1, 1, m, 1>>, x.data) : x \in ClassTargets(m)}
PerClassMasks(m) ==
    {Tensor(x.dtype, <<1, 1, m, 1>>, x.data) : x \in ClassMasks(m)}

\* a criterion the caller of per_class_loss made itself
CriterionGiven(c) ==
    /\ pc = "setup"
    /\ criterion' = c
    /\ pc' = "built"
    /\ UNCHANGED <<config, reduction, frame, logits, ground_truth, acc, out>>

\* per_class_loss(criterion, logits, labels, unk_masks, n_classes), lines 120-122
PerClassLossEnter(x, labels, unk_masks, n_classes) ==
    /\ pc = "built"
    /\ logits' = x
    /\ frame' = [t |-> "per_class_loss", labels |-> labels,
                 unk_masks |-> unk_masks, n_classes |-> n_classes,
                 class_ |-> 0, class_loss |-> <<>>, class_counts |-> <<>>]
    /\ pc' = "per_class_loop"
    /\ UNCHANGED <<config, reduction, criterion, ground_truth, acc, out>>

\* lines 123-130
PerClassLossStep ==
    /\ pc = "per_class_loop"
    /\ frame.class_ < frame.n_classes
    /\ \E f \in {PerClassIteration(criterion, logits, frame)} :
           IF IsErr(f)
           THEN out' = f /\ pc' = "per_class_done" /\ UNCHANGED frame
           ELSE frame' = f /\ UNCHANGED <<out, pc>>
    /\ UNCHANGED <<config, reduction, criterion, logits, ground_truth, acc>>

\* lines 131-133
PerClassLossReturn ==
    /\ pc = "per_class_loop"
    /\ frame.class_ >= frame.n_classes
    /\ \E class_loss \in {NpArray("float", frame.class_loss)} :
           out' = IF IsErr(class_loss) THEN class_loss
                  ELSE PyList(<<NanToNum(class_loss),
                                NpArray("int64", frame.class_counts)>>)
    /\ pc' = "per_class_done"
    /\ UNCHANGED <<config, reduction, frame, criterion, logits, ground_truth, acc>>

NextPerClass ==
    \/ \E name \in MaskedLossNames, tun \in SolverTunables,
          red \in {PyStr("mean"), PyNone} :
           GetLoss(Config(PyStr(name), tun), red)
    \/ \E c \in WrappedCriteria : CriterionGiven(c)
    \/ \E m \in 1..MaxElems :
           \E x \in PerClassLogits(m), labels \in PerClassLabels(m),
              unk_masks \in PerClassMasks(m) :
               PerClassLossEnter(x, labels, unk_masks, NumClasses)
    \/ PerClassLossStep
    \/ PerClassLossReturn

SpecPerClass == Init /\ [][NextPerClass]_vars

(***************************************************************************)
(* Properties of per_class_loss.                                           *)
(***************************************************************************)
PerClassFinished == pc = "per_class_done"
PerClassReturned == PerClassFinished /\ ~IsErr(out)

\* the number of elements that are valid and labelled c
ValidOfClass(labels, unk_masks, c) ==
    Cardinality({i \in 1..Numel(labels) :
                     labels.data[i] = c /\ unk_masks.data[i] = 1})

(***************************************************************************)
(* C11: the per-class valid counts per_class_loss returns add up to        *)
(* mask.sum(): the count of class c is the number of mask-true elements    *)
(* labelled c, so every valid element is counted for exactly one class.    *)
(***************************************************************************)
C11_CountsPartitionValid ==
    PerClassReturned =>
        /\ SumSeq(out.v[2].data) = SumSeq(frame.unk_masks.data)
        /\ \A c \in 0..(frame.n_classes - 1) :
               out.v[2].data[c + 1] = ValidOfClass(frame.labels, frame.unk_masks, c)

C11_Witness ==
    /\ PerClassReturned
    /\ frame.labels.data = <<1, 1>>
    /\ frame.unk_masks.data = <<0, 1>>
    /\ out.v[2].data = <<0, 1>>

(***************************************************************************)
(* C14: per_class_loss given a masked functor built by get_loss completes  *)
(* and returns n_classes loss values and n_classes counts in class order,  *)
(* none of the losses non-finite.                                          *)
(***************************************************************************)
C14_PerClassLossCompletes ==
    (PerClassFinished /\ SingleLoss /\ MaskedCriterion) =>
        /\ ~IsErr(out)
        /\ Numel(out.v[1]) = frame.n_classes
        /\ Numel(out.v[2]) = frame.n_classes
        /\ \A c \in 1..frame.n_classes : out.v[1].data[c] # NaN

(***************************************************************************)
(* Repeated and overlapping invocations of one loss object.  The locals of *)
(* the running invocations are frame.call; frame.alpha_writes counts the   *)
(* executions of `self.alpha = ...` (lines 278 and 384).                   *)
(***************************************************************************)
\* logits.data.type() of the tensors a caller passes
TensorTypes == {DefaultType, "torch.DoubleTensor"}

\* the classes whose forward assigns a field of self
CachingClasses == {"FocalLoss", "MaskedFocalLoss"}

Idle == [at |-> "idle"]
NoInvocations ==
    [t |-> "invocations", call |-> [k \in 1..MaxConcurrent |-> Idle],
     started |-> 0, alpha_writes |-> 0]
Invocations == IF frame.t = "invocations" THEN frame ELSE NoInvocations

\* the (logits, ground_truth) pairs of one element, logits of either type
InvocationInputs ==
    {<<WithType(x, ty), gt>> :
        x \in ClassLogits(1), ty \in TensorTypes,
        gt \in ClassTargets(1)
               \cup {PyList(<<tg, mk>>) : tg \in ClassTargets(1), mk \in ClassMasks(1)}}

\* forward(x, gt) of a FocalLoss or MaskedFocalLoss starts as invocation k
\* and runs lines 250-274 (370-380), which read no field of self
InvokeBegin(k, x, gt) ==
    /\ pc \in {"built", "invoking"}
    /\ criterion.t = "obj"
    /\ criterion.cls \in CachingClasses
    /\ Invocations.call[k].at = "idle"
    /\ Invocations.started < MaxInvocations
    /\ \E h \in {IF criterion.cls = "FocalLoss"
                 THEN FocalHead(x, gt) ELSE MaskedFocalHead(x, gt)} :
           IF IsErr(h)
           THEN /\ frame' = [Invocations EXCEPT !.started = @ + 1]
                /\ out' = h
           ELSE /\ frame' = [Invocations EXCEPT
                                !.started = @ + 1,
                                !.call[k] = [at |-> "alpha_check",
                                             type |-> TypeOf(x), h |-> h]]
                /\ UNCHANGED out
    /\ pc' = "invoking"
    /\ UNCHANGED <<config, reduction, criterion, logits, ground_truth, acc>>

\* forward(x, gt) of a functor whose forward assigns no field of self
InvokeOther(x, gt) ==
    /\ pc \in {"built", "invoking"}
    /\ criterion.t = "obj"
    /\ criterion.cls \notin CachingClasses \cup {"CombinedLoss"}
    /\ Invocations.started < MaxInvocations
    /\ frame' = [Invocations EXCEPT !.started = @ + 1]
    /\ out' = Call(criterion, x, gt)
    /\ pc' = "invoking"
    /\ UNCHANGED <<config, reduction, criterion, logits, ground_truth, acc>>

\* lines 276-277 (382-383): is there an alpha, and has it the logits' type
AlphaCheck(k) ==
    /\ pc = "invoking"
    /\ frame.call[k].at = "alpha_check"
    /\ frame' = [frame EXCEPT
                    !.call[k].at =
                        IF criterion.alpha = PyNone THEN "tail"
                        ELSE IF TypeOf(criterion.alpha) # frame.call[k].type
                        THEN "alpha_write" ELSE "tail"]
    /\ UNCHANGED <<pc, config, reduction, criterion, logits, ground_truth, acc, out>>

\* line 278 (384): self.alpha = self.alpha.type_as(logits.data)
AlphaWrite(k) ==
    /\ pc = "invoking"
    /\ frame.call[k].at = "alpha_write"
    /\ criterion' = [criterion EXCEPT !.alpha = WithType(@, frame.call[k].type)]
    /\ frame' = [frame EXCEPT !.call[k].at = "tail", !.alpha_writes = @ + 1]
    /\ UNCHANGED <<pc, config, reduction, logits, ground_truth, acc, out>>

\* lines 279-292 (385-397)
InvokeReturn(k) ==
    /\ pc = "invoking"
    /\ frame.call[k].at = "tail"
    /\ out' = FocalTail(criterion, frame.call[k].h.logpt,
                        ExpT(frame.call[k].h.logpt), frame.call[k].h.target)
    /\ frame' = [frame EXCEPT !.call[k] = Idle]
    /\ UNCHANGED <<pc, config, reduction, criterion, logits, ground_truth, acc>>

\* the identifiers whose functors are invoked repeatedly
InvokedLossNames ==
    {"focal_loss", "masked_focal_loss", "masked_cross_entropy", "masked_dice_loss"}

NextInvocations ==
    \/ \E name \in InvokedLossNames, tun \in SolverTunables :
           GetLoss(Config(PyStr(name), tun), PyStr("mean"))
    \/ \E k \in 1..MaxConcurrent, input \in InvocationInputs :
           InvokeBegin(k, input[1], input[2])
    \/ \E input \in InvocationInputs : InvokeOther(input[1], input[2])
    \/ \E k \in 1..MaxConcurrent : AlphaCheck(k)
    \/ \E k \in 1..MaxConcurrent : AlphaWrite(k)
    \/ \E k \in 1..MaxConcurrent : InvokeReturn(k)

SpecInvocations == Init /\ [][NextInvocations]_vars

(***************************************************************************)
(* C13: over any sequence and interleaving of forward invocations on one   *)
(* loss object, no field but the cached alpha tensor differs from what     *)
(* construction set, and alpha is assigned at most once.                   *)
(***************************************************************************)
C13_CacheWrittenAtMostOnce ==
    pc = "invoking" =>
        /\ \A f \in DOMAIN criterion \ {"alpha"} :
               criterion[f] = GetLossOne(config, Device, reduction)[f]
        /\ frame.alpha_writes <= 1

=============================================================================
